---- MODULE Spec2Model ----
(***************************************************************************)
(* Model of the docker metrics collector (collector.go): the scrape cycle  *)
(* DockerCollector.Collect, the per-container goroutine processContainer,  *)
(* the WaitGroup barrier, the metric channel and the metric derivations.   *)
(***************************************************************************)
EXTENDS Integers, Sequences, FiniteSets, TLC

VARIABLES
    containerRe,  \* DockerCollector.containerRe, compiled once at startup
    proc,         \* "alive", or "exited" once log.Fatal called os.Exit
    cycle,        \* number of the current Collect call
    collectPc,    \* position of Collect: "start", "loop", "wait", "done"
    listErr,      \* ContainerList failed in the current cycle
    prevListErr,  \* ContainerList failed in the previous cycle
    containers,   \* the slice returned by ContainerList in this cycle
    idx,          \* index of the range loop in Collect
    wg,           \* counter of the sync.WaitGroup of this cycle
    units,        \* one record per processContainer goroutine of this cycle
    sink          \* metrics the consumer received on ch, per sending goroutine

vars == <<containerRe, proc, cycle, collectPc, listErr, prevListErr,
          containers, idx, wg, units, sink>>

----------------------------------------------------------------------------
(* Bounds *)

MaxCycles == 2

\* modulus standing for 2^64 of the uint64 counters
WordMod == 16

\* integers up to MantMax are exact in the float type (2^53 for float64)
MantMax == 8

\* largest raw counter value the runtime reports
MaxCounter == 2

\* largest number of block I/O records in a stats payload
MaxRecords == 3

\* the divisor 1e9 of the cumulative CPU seconds
NanosPerSecond == 1000000000

----------------------------------------------------------------------------
(* Strings: a string is a sequence of one-character strings *)

Min(S) == CHOOSE x \in S : \A y \in S : x <= y

\* strings.Join(names, sep)
RECURSIVE Join(_, _)
Join(names, sep) ==
    IF Len(names) = 0 THEN <<>>
    ELSE IF Len(names) = 1 THEN names[1]
    ELSE names[1] \o sep \o Join(Tail(names), sep)

\* strings.TrimPrefix(s, prefix)
TrimPrefix(s, prefix) ==
    IF Len(s) >= Len(prefix) /\ SubSeq(s, 1, Len(prefix)) = prefix
    THEN SubSeq(s, Len(prefix) + 1, Len(s))
    ELSE s

\* strings.TrimPrefix(strings.Join(cont.Names, ";"), "/")
NormalizedName(cont) == TrimPrefix(Join(cont.Names, <<";">>), <<"/">>)

----------------------------------------------------------------------------
(* Regular expressions.  A compiled pattern is                              *)
(*   [anchor : the pattern starts with ^,                                   *)
(*    atoms  : its one-character atoms, a literal character or ".",        *)
(*    star   : the pattern ends with a greedy ".*",                        *)
(*    groups : its capture groups in order of their opening parenthesis,   *)
(*             each the range from..to of atoms it encloses, the trailing  *)
(*             ".*" counting as atom Len(atoms)+1]                          *)

AtomMatches(a, c) == a = "." \/ a = c

MatchAt(re, s, p) ==
    /\ p + Len(re.atoms) - 1 <= Len(s)
    /\ \A k \in 1..Len(re.atoms) : AtomMatches(re.atoms[k], s[p + k - 1])

\* regexp.Regexp.FindStringSubmatch: nil when there is no match, else the
\* leftmost match followed by the text of every capture group
FindStringSubmatch(re, s) ==
    LET positions == IF re.anchor THEN {1} ELSE 1..(Len(s) + 1)
        ps == {p \in positions : MatchAt(re, s, p)}
    IN  IF ps = {} THEN <<>>
        ELSE LET p == Min(ps)
                 last(k) == IF k = Len(re.atoms) + 1 THEN Len(s) ELSE p + k - 1
                 whole == SubSeq(s, p, IF re.star THEN Len(s)
                                                  ELSE p + Len(re.atoms) - 1)
             IN  <<whole>> \o
                 [g \in 1..Len(re.groups) |->
                     SubSeq(s, p + re.groups[g].from - 1, last(re.groups[g].to))]

\* DEX_FILTER_CONTAINER unset: ".*"
DefaultRe == [anchor |-> FALSE, atoms |-> <<>>, star |-> TRUE, groups |-> <<>>]

\* the patterns DEX_FILTER_CONTAINER is drawn from:
\*   .*    ^w    ^d.    (w)(.*)    (b)    x
Patterns ==
    { DefaultRe,
      [anchor |-> TRUE,  atoms |-> <<"w">>, star |-> FALSE, groups |-> <<>>],
      [anchor |-> TRUE,  atoms |-> <<"d", ".">>, star |-> FALSE, groups |-> <<>>],
      [anchor |-> FALSE, atoms |-> <<"w">>, star |-> TRUE,
       groups |-> <<[from |-> 1, to |-> 1], [from |-> 2, to |-> 2]>>],
      [anchor |-> FALSE, atoms |-> <<"b">>, star |-> FALSE,
       groups |-> <<[from |-> 1, to |-> 1]>>],
      [anchor |-> FALSE, atoms |-> <<"x">>, star |-> FALSE, groups |-> <<>>] }

----------------------------------------------------------------------------
(* Numbers.  A uint64 is a natural below WordMod.  A float64 is             *)
(*   [k |-> "fin", n, d]  the rational n/d,  [k |-> "inf"]  or  [k |-> "nan"] *)

\* uint64 subtraction wraps around
USub(a, b) == (a - b + WordMod) % WordMod

\* uint64 addition wraps around
UAdd(a, b) == (a + b) % WordMod

Fin(n, d) == [k |-> "fin", n |-> n, d |-> d]
Inf == [k |-> "inf"]
NaN == [k |-> "nan"]

\* the spacing of the floats around u: 1 up to MantMax, doubling above
RECURSIVE Ulp(_, _)
Ulp(u, step) == IF u < MantMax * step THEN step ELSE Ulp(u, 2 * step)

\* float64(u) for an unsigned integer u: exact up to MantMax, above it the
\* nearest representable value, ties to the even mantissa
ToFloat(u) ==
    LET step == Ulp(u, 1)
        q == u \div step
        r == u % step
        up == 2 * r > step \/ (2 * r = step /\ q % 2 = 1)
    IN  Fin((IF up THEN q + 1 ELSE q) * step, 1)

\* float64 division a / b of two finite non-negative floats
FDiv(a, b) ==
    IF b.n = 0 THEN (IF a.n = 0 THEN NaN ELSE Inf)
    ELSE Fin(a.n * b.d, a.d * b.n)

\* float64 multiplication of a float by the finite positive constant c
FMul(a, c) == IF a.k = "fin" THEN Fin(a.n * c, a.d) ELSE a

\* map lookup: the zero value when the key is absent
MapGet(m, key, zero) == IF key \in DOMAIN m THEN m[key] ELSE zero

\* strings.EqualFold over the operation names of the block I/O records
ToLower(op) ==
    CASE op \in {"read", "Read", "READ"} -> "read"
      [] op \in {"write", "Write", "WRITE"} -> "write"
      [] OTHER -> op

\* the operation names compared with == instead of strings.EqualFold
EqualExact(a, b) == a = b

EqualFold(a, b) == ToLower(a) = ToLower(b)

----------------------------------------------------------------------------
(* Metrics *)

\* prometheus.MustNewConstMetric(prometheus.NewDesc(name, help, labelCname, nil),
\*                               kind, value, cName)
Metric(name, kind, value, cName) ==
    [name |-> name, kind |-> kind, value |-> value, label |-> cName]

\* the exited gauge set for every container that is not running
LifecycleMetricsExitedElse(state, cName) ==
    LET isRunning == IF state = "running" THEN 1 ELSE 0
        isRestarting == IF state = "restarting" THEN 1 ELSE 0
        isExited == IF state # "running" THEN 1 ELSE 0
    IN  << Metric("dex_container_running", "gauge", Fin(isRunning, 1), cName),
           Metric("dex_container_restarting", "gauge", Fin(isRestarting, 1), cName),
           Metric("dex_container_exited", "gauge", Fin(isExited, 1), cName) >>

\* lines 78-112: the three state gauges
LifecycleMetrics(state, cName) ==
    LET isRunning == IF state = "running" THEN 1 ELSE 0
        isRestarting == IF state = "restarting" THEN 1 ELSE 0
        isExited == IF state = "exited" THEN 1 ELSE 0
    IN  << Metric("dex_container_running", "gauge", Fin(isRunning, 1), cName),
           Metric("dex_container_restarting", "gauge", Fin(isRestarting, 1), cName),
           Metric("dex_container_exited", "gauge", Fin(isExited, 1), cName) >>

\* lines 117-122
RestartsMetric(restartCount, cName) ==
    << Metric("dex_container_restarts_total", "counter", ToFloat(restartCount), cName) >>

CPUMetrics(st, cName) ==
    LET totalUsage == st.cpuTotal
        cpuDelta == USub(totalUsage, st.preCpuTotal)
        sysemDelta == USub(st.system, st.preSystem)
        cpuUtilization == FMul(FDiv(ToFloat(cpuDelta), ToFloat(sysemDelta)), 100)
    IN  << Metric("dex_cpu_utilization_percent", "gauge", cpuUtilization, cName),
           Metric("dex_cpu_utilization_seconds_total", "counter",
                  FDiv(ToFloat(totalUsage), Fin(NanosPerSecond, 1)), cName) >>

\* the received bytes sent under both names
NetworkMetricsRxTwice(st, cName) ==
    LET eth0 == MapGet(st.networks, "eth0", [rx |-> 0, tx |-> 0])
    IN  << Metric("dex_network_rx_bytes_total", "counter", ToFloat(eth0.rx), cName),
           Metric("dex_network_rx_bytes_total", "counter", ToFloat(eth0.rx), cName) >>

NetworkMetrics(st, cName) ==
    LET eth0 == MapGet(st.networks, "eth0", [rx |-> 0, tx |-> 0])
    IN  << Metric("dex_network_rx_bytes_total", "counter", ToFloat(eth0.rx), cName),
           Metric("dex_network_tx_bytes_total", "counter", ToFloat(eth0.tx), cName) >>

MemoryMetrics(st, cName) ==
    LET memoryUsage == USub(st.memUsage, MapGet(st.memStats, "cache", 0))
        memoryTotal == st.memLimit
        memoryUtilization == FMul(FDiv(ToFloat(memoryUsage), ToFloat(memoryTotal)), 100)
    IN  << Metric("dex_memory_usage_bytes", "counter", ToFloat(memoryUsage), cName),
           Metric("dex_memory_total_bytes", "gauge", ToFloat(memoryTotal), cName),
           Metric("dex_memory_utilization_percent", "gauge", memoryUtilization, cName) >>

RECURSIVE SumOp(_, _)
SumOp(records, op) ==
    IF Len(records) = 0 THEN 0
    ELSE LET rest == SumOp(SubSeq(records, 1, Len(records) - 1), op)
             b == records[Len(records)]
         IN  IF EqualFold(b.op, op) THEN UAdd(rest, b.value) ELSE rest

BlockIoMetrics(st, cName) ==
    LET readTotal == SumOp(st.blkio, "read")
        writeTotal == SumOp(st.blkio, "write")
    IN  << Metric("dex_block_io_read_bytes_total", "counter", ToFloat(readTotal), cName),
           Metric("dex_block_io_write_bytes_total", "counter", ToFloat(writeTotal), cName) >>

PidsMetrics(st, cName) ==
    << Metric("dex_pids_current", "counter", ToFloat(st.pids), cName) >>

----------------------------------------------------------------------------
(* The runtime: what the docker API calls may answer *)

\* lifecycle states the enumeration reports
States == {"running", "restarting", "exited", "paused"}

\* the containers of the host: identifier and names
Hosted ==
    << [ID |-> 1, Names |-> << <<"/", "w", "b">> >>],
       [ID |-> 2, Names |-> << <<"/", "d", "b">>, <<"/", "w">> >>] >>

Summary(h, state) == [ID |-> h.ID, Names |-> h.Names, State |-> state]

\* the answers of ContainerList: any of the hosted containers, in any state
ContainerLists ==
    { <<>> }
    \cup { <<Summary(Hosted[i], s)>> : i \in 1..Len(Hosted), s \in States }
    \cup { <<Summary(Hosted[1], s), Summary(Hosted[2], t)>> : s \in States, t \in States }

\* the answers of ContainerInspect: inspect.RestartCount
RestartCounts == {0, 2}

\* a map without keys
EmptyMap == [key \in {} |-> 0]

\* the zero value of container.StatsResponse
ZeroStats ==
    [cpuTotal |-> 0, preCpuTotal |-> 0, system |-> 0, preSystem |-> 0,
     memUsage |-> 0, memStats |-> EmptyMap, memLimit |-> 0,
     networks |-> EmptyMap, blkio |-> <<>>, pids |-> 0]

\* a well-formed sample
SampleStats ==
    [cpuTotal |-> 5, preCpuTotal |-> 4, system |-> 7, preSystem |-> 3,
     memUsage |-> 6, memStats |-> [key \in {"cache"} |-> 2], memLimit |-> 8,
     networks |-> [key \in {"eth0"} |-> [rx |-> 1, tx |-> 2]],
     blkio |-> << [op |-> "Read", value |-> 4], [op |-> "Write", value |-> 2],
                  [op |-> "read", value |-> 1], [op |-> "Sync", value |-> 3] >>,
     pids |-> 7]

\* stats payloads that decode
Snapshots == {SampleStats}

\* what a failed Decode leaves in containerStats: nothing, or the fields
\* read before the malformed part of the payload
PartialStats ==
    { ZeroStats,
      [ZeroStats EXCEPT !.cpuTotal = 5, !.preCpuTotal = 4,
                        !.system = 7, !.preSystem = 3] }

----------------------------------------------------------------------------
(* State *)

\* a goroutine that was not started yet
NotStarted ==
    [pc |-> "notstarted", cName |-> <<>>, pending |-> <<>>,
     inspectCalls |-> 0, statsCalls |-> 0, decodeErr |-> FALSE, stats |-> ZeroStats,
     restartCount |-> 0]

Units == DOMAIN units

\* a goroutine holds the barrier from `go` until its deferred wg.Done()
Live(i) == units[i].pc \notin {"notstarted", "done"}

Init ==
    /\ containerRe \in Patterns
    /\ proc = "alive"
    /\ cycle = 0
    /\ collectPc = "done"
    /\ listErr = FALSE
    /\ prevListErr = FALSE
    /\ containers = <<>>
    /\ idx = 1
    /\ wg = 0
    /\ units = <<>>
    /\ sink = <<>>

----------------------------------------------------------------------------
(* Collect *)

\* a failed ContainerList handled with log.Fatal
CollectListErrFatal ==
    /\ proc = "alive"
    /\ collectPc = "done"
    /\ cycle < MaxCycles
    /\ cycle' = cycle + 1
    /\ prevListErr' = listErr
    /\ listErr' = TRUE
    /\ proc' = "exited"
    /\ UNCHANGED <<containerRe, collectPc, containers, idx, wg, units, sink>>

\* c.cli.ContainerList fails: log.Error and return
CollectListErr ==
    /\ proc = "alive"
    /\ collectPc = "done"
    /\ cycle < MaxCycles
    /\ cycle' = cycle + 1
    /\ prevListErr' = listErr
    /\ listErr' = TRUE
    /\ containers' = <<>>
    /\ idx' = 1
    /\ wg' = 0
    /\ units' = <<>>
    /\ sink' = <<>>
    /\ collectPc' = "done"
    /\ UNCHANGED <<containerRe, proc>>

\* the metrics of the cycle before kept in the collector and sent again
CollectListKeepSink(lists) ==
    /\ proc = "alive"
    /\ collectPc = "done"
    /\ cycle < MaxCycles
    /\ \E l \in lists :
        /\ containers' = l
        /\ units' = [i \in 1..Len(l) |-> NotStarted]
        /\ sink' = [i \in 1..Len(l) |-> IF i \in DOMAIN sink THEN sink[i] ELSE <<>>]
    /\ cycle' = cycle + 1
    /\ prevListErr' = listErr
    /\ listErr' = FALSE
    /\ idx' = 1
    /\ wg' = 0
    /\ collectPc' = "loop"
    /\ UNCHANGED <<containerRe, proc>>

\* c.cli.ContainerList succeeds; var wg sync.WaitGroup
CollectList(lists) ==
    /\ proc = "alive"
    /\ collectPc = "done"
    /\ cycle < MaxCycles
    /\ \E l \in lists :
        /\ containers' = l
        /\ units' = [i \in 1..Len(l) |-> NotStarted]
        /\ sink' = [i \in 1..Len(l) |-> <<>>]
    /\ cycle' = cycle + 1
    /\ prevListErr' = listErr
    /\ listErr' = FALSE
    /\ idx' = 1
    /\ wg' = 0
    /\ collectPc' = "loop"
    /\ UNCHANGED <<containerRe, proc>>

\* wg.Add(1) left out of the loop
WgAddNone(n) == n

\* wg.Add(1)
WgAdd(n) == n + 1

\* wg.Done()
WgDone(n) == n - 1

\* the filter applied in the loop: a goroutine only for a matching container
CollectSpawnFiltered ==
    /\ proc = "alive"
    /\ collectPc = "loop"
    /\ idx <= Len(containers)
    /\ IF Len(FindStringSubmatch(containerRe, NormalizedName(containers[idx]))) = 0
       THEN UNCHANGED <<wg, units>>
       ELSE /\ wg' = WgAdd(wg)
            /\ units' = [units EXCEPT ![idx].pc = "begin"]
    /\ idx' = idx + 1
    /\ UNCHANGED <<containerRe, proc, cycle, collectPc, listErr, prevListErr,
                   containers, sink>>

\* one iteration of the range loop: wg.Add(1); go c.processContainer(...)
CollectSpawn ==
    /\ proc = "alive"
    /\ collectPc = "loop"
    /\ idx <= Len(containers)
    /\ wg' = WgAdd(wg)
    /\ units' = [units EXCEPT ![idx].pc = "begin"]
    /\ idx' = idx + 1
    /\ UNCHANGED <<containerRe, proc, cycle, collectPc, listErr, prevListErr,
                   containers, sink>>

\* the range loop ends and Collect enters wg.Wait()
CollectLoopEnd ==
    /\ proc = "alive"
    /\ collectPc = "loop"
    /\ idx > Len(containers)
    /\ collectPc' = "wait"
    /\ UNCHANGED <<containerRe, proc, cycle, listErr, prevListErr,
                   containers, idx, wg, units, sink>>

\* Collect without the barrier: wg.Wait() left out
WaitSkipped(n) == TRUE

\* wg.Wait() unblocks when the counter is zero
WaitUnblocked(n) == n = 0

\* wg.Wait() returns and so does Collect
CollectReturn ==
    /\ proc = "alive"
    /\ collectPc = "wait"
    /\ WaitUnblocked(wg)
    /\ collectPc' = "done"
    /\ UNCHANGED <<containerRe, proc, cycle, listErr, prevListErr,
                   containers, idx, wg, units, sink>>

----------------------------------------------------------------------------
(* processContainer, the goroutine of containers[i] *)

\* the next call made without waiting for the sends before it
SentOrNot(i, at) == units[i].pc = at

\* the pending sends of the current step are done
Sent(i, at) == units[i].pc = at /\ units[i].pending = <<>>

\* the filter applied only after the state gauges were sent
UnitFilterLate(i) ==
    /\ proc = "alive"
    /\ units[i].pc = "begin"
    /\ Len(FindStringSubmatch(containerRe, NormalizedName(containers[i]))) = 0
    /\ sink' = [sink EXCEPT ![i] = LifecycleMetrics(containers[i].State,
                                                    NormalizedName(containers[i]))]
    /\ units' = [units EXCEPT ![i].pc = "done"]
    /\ wg' = WgDone(wg)
    /\ UNCHANGED <<containerRe, proc, cycle, collectPc, listErr, prevListErr,
                   containers, idx>>

\* lines 71-75: the name does not match the filter; return, deferred wg.Done()
UnitFilterNoMatch(i) ==
    /\ proc = "alive"
    /\ units[i].pc = "begin"
    /\ Len(FindStringSubmatch(containerRe, NormalizedName(containers[i]))) = 0
    /\ units' = [units EXCEPT ![i].pc = "done"]
    /\ wg' = WgDone(wg)
    /\ UNCHANGED <<containerRe, proc, cycle, collectPc, listErr, prevListErr,
                   containers, idx, sink>>

\* the whole match taken as the label whatever the groups
LabelWholeMatch(submatches) == submatches[1]

\* line 76: cName = submatches[len(submatches)-1]
LabelOf(submatches) == submatches[Len(submatches)]

\* lines 71-90: the name matches; the label and the three state values
UnitFilterMatch(i) ==
    /\ proc = "alive"
    /\ units[i].pc = "begin"
    /\ LET submatches == FindStringSubmatch(containerRe, NormalizedName(containers[i]))
       IN  /\ Len(submatches) # 0
           /\ units' = [units EXCEPT
                  ![i].pc = "lifecycle",
                  ![i].cName = LabelOf(submatches),
                  ![i].pending = LifecycleMetrics(containers[i].State,
                                                  LabelOf(submatches))]
    /\ UNCHANGED <<containerRe, proc, cycle, collectPc, listErr, prevListErr,
                   containers, idx, wg, sink>>

\* the containers processed one after the other: a metric is received only
\* when every goroutine started earlier has returned
UnitSendInTurn(i) ==
    /\ proc = "alive"
    /\ units[i].pending # <<>>
    /\ \A j \in 1..(i - 1) : units[j].pc = "done"
    /\ sink' = [sink EXCEPT ![i] = Append(@, Head(units[i].pending))]
    /\ units' = [units EXCEPT ![i].pending = Tail(@)]
    /\ UNCHANGED <<containerRe, proc, cycle, collectPc, listErr, prevListErr,
                   containers, idx, wg>>

\* ch <- metric: the consumer receives the next metric of goroutine i
UnitSend(i) ==
    /\ proc = "alive"
    /\ units[i].pending # <<>>
    /\ sink' = [sink EXCEPT ![i] = Append(@, Head(units[i].pending))]
    /\ units' = [units EXCEPT ![i].pending = Tail(@)]
    /\ UNCHANGED <<containerRe, proc, cycle, collectPc, listErr, prevListErr,
                   containers, idx, wg>>

\* lines 114-123: ContainerInspect succeeds
UnitInspectOk(i) ==
    /\ proc = "alive"
    /\ Sent(i, "lifecycle")
    /\ \E restartCount \in RestartCounts :
        units' = [units EXCEPT
            ![i].pc = "restarts",
            ![i].inspectCalls = @ + 1,
            ![i].restartCount = restartCount,
            ![i].pending = RestartsMetric(restartCount, units[i].cName)]
    /\ UNCHANGED <<containerRe, proc, cycle, collectPc, listErr, prevListErr,
                   containers, idx, wg, sink>>

\* log.Fatal: the entry is logged and os.Exit(1) ends the process; no
\* deferred call runs
Fatal == "exited"

\* lines 114-115: ContainerInspect fails
UnitInspectErr(i) ==
    /\ proc = "alive"
    /\ Sent(i, "lifecycle")
    /\ units' = [units EXCEPT ![i].pc = "fatal", ![i].inspectCalls = @ + 1]
    /\ proc' = Fatal
    /\ UNCHANGED <<containerRe, cycle, collectPc, listErr, prevListErr,
                   containers, idx, wg, sink>>

\* stats fetched for every container that is not exited
IsNotExited(cont) == cont.State # "exited"

\* line 126: isRunning == 1
IsRunning(cont) == cont.State = "running"

\* line 126: the container is not running; return, deferred wg.Done()
UnitNotRunning(i) ==
    /\ proc = "alive"
    /\ Sent(i, "restarts")
    /\ ~IsRunning(containers[i])
    /\ units' = [units EXCEPT ![i].pc = "done"]
    /\ wg' = WgDone(wg)
    /\ UNCHANGED <<containerRe, proc, cycle, collectPc, listErr, prevListErr,
                   containers, idx, sink>>

\* lines 128-129: ContainerStats fails
UnitStatsErr(i) ==
    /\ proc = "alive"
    /\ Sent(i, "restarts")
    /\ IsRunning(containers[i])
    /\ units' = [units EXCEPT ![i].pc = "fatal", ![i].statsCalls = @ + 1]
    /\ proc' = Fatal
    /\ UNCHANGED <<containerRe, cycle, collectPc, listErr, prevListErr,
                   containers, idx, wg, sink>>

\* lines 128-140: ContainerStats succeeds and its body decodes
UnitStatsDecoded(i, snapshots) ==
    /\ proc = "alive"
    /\ Sent(i, "restarts")
    /\ IsRunning(containers[i])
    /\ \E st \in snapshots :
        units' = [units EXCEPT
            ![i].pc = "blockio",
            ![i].statsCalls = @ + 1,
            ![i].stats = st,
            ![i].pending = BlockIoMetrics(st, units[i].cName)]
    /\ UNCHANGED <<containerRe, proc, cycle, collectPc, listErr, prevListErr,
                   containers, idx, wg, sink>>

\* lines 128-140: ContainerStats succeeds, Decode fails: log.Error, and the
\* metric functions are called all the same
UnitStatsDecodeErr(i) ==
    /\ proc = "alive"
    /\ Sent(i, "restarts")
    /\ IsRunning(containers[i])
    /\ \E st \in PartialStats :
        units' = [units EXCEPT
            ![i].pc = "blockio",
            ![i].statsCalls = @ + 1,
            ![i].decodeErr = TRUE,
            ![i].stats = st,
            ![i].pending = BlockIoMetrics(st, units[i].cName)]
    /\ UNCHANGED <<containerRe, proc, cycle, collectPc, listErr, prevListErr,
                   containers, idx, wg, sink>>

\* line 142: c.memoryMetrics
UnitMemory(i) ==
    /\ proc = "alive"
    /\ Sent(i, "blockio")
    /\ units' = [units EXCEPT
           ![i].pc = "memory",
           ![i].pending = MemoryMetrics(units[i].stats, units[i].cName)]
    /\ UNCHANGED <<containerRe, proc, cycle, collectPc, listErr, prevListErr,
                   containers, idx, wg, sink>>

\* line 144: c.networkMetrics
UnitNetwork(i) ==
    /\ proc = "alive"
    /\ Sent(i, "memory")
    /\ units' = [units EXCEPT
           ![i].pc = "network",
           ![i].pending = NetworkMetrics(units[i].stats, units[i].cName)]
    /\ UNCHANGED <<containerRe, proc, cycle, collectPc, listErr, prevListErr,
                   containers, idx, wg, sink>>

\* line 146: c.CPUMetrics
UnitCPU(i) ==
    /\ proc = "alive"
    /\ Sent(i, "network")
    /\ units' = [units EXCEPT
           ![i].pc = "cpu",
           ![i].pending = CPUMetrics(units[i].stats, units[i].cName)]
    /\ UNCHANGED <<containerRe, proc, cycle, collectPc, listErr, prevListErr,
                   containers, idx, wg, sink>>

\* line 148: c.pidsMetrics
UnitPids(i) ==
    /\ proc = "alive"
    /\ Sent(i, "cpu")
    /\ units' = [units EXCEPT
           ![i].pc = "pids",
           ![i].pending = PidsMetrics(units[i].stats, units[i].cName)]
    /\ UNCHANGED <<containerRe, proc, cycle, collectPc, listErr, prevListErr,
                   containers, idx, wg, sink>>

\* line 151: the goroutine returns, deferred wg.Done()
UnitReturn(i) ==
    /\ proc = "alive"
    /\ Sent(i, "pids")
    /\ units' = [units EXCEPT ![i].pc = "done"]
    /\ wg' = WgDone(wg)
    /\ UNCHANGED <<containerRe, proc, cycle, collectPc, listErr, prevListErr,
                   containers, idx, sink>>

----------------------------------------------------------------------------
(* Specifications *)

Next ==
    \/ CollectListErr
    \/ CollectList(ContainerLists)
    \/ CollectSpawn
    \/ CollectLoopEnd
    \/ CollectReturn
    \/ \E i \in Units : UnitFilterNoMatch(i)
    \/ \E i \in Units : UnitFilterMatch(i)
    \/ \E i \in Units : UnitSend(i)
    \/ \E i \in Units : UnitInspectOk(i)
    \/ \E i \in Units : UnitInspectErr(i)
    \/ \E i \in Units : UnitNotRunning(i)
    \/ \E i \in Units : UnitStatsErr(i)
    \/ \E i \in Units : UnitStatsDecoded(i, Snapshots)
    \/ \E i \in Units : UnitStatsDecodeErr(i)
    \/ \E i \in Units : UnitMemory(i)
    \/ \E i \in Units : UnitNetwork(i)
    \/ \E i \in Units : UnitCPU(i)
    \/ \E i \in Units : UnitPids(i)
    \/ \E i \in Units : UnitReturn(i)

\* scrape cycles over the hosted containers
Spec == Init /\ [][Next]_vars

\* ContainerList answers with the first hosted container alone
SingleLists == { <<Summary(Hosted[1], s)>> : s \in {"running", "exited"} }

\* stats payloads ranging over the CPU counters
CPUSnapshots ==
    { [SampleStats EXCEPT !.cpuTotal = a, !.preCpuTotal = b,
                          !.system = c, !.preSystem = d] :
        a \in 0..MaxCounter, b \in 0..MaxCounter,
        c \in 0..MaxCounter, d \in 0..MaxCounter }

NextCPU ==
    \/ CollectListErr
    \/ CollectList(SingleLists)
    \/ CollectSpawn
    \/ CollectLoopEnd
    \/ CollectReturn
    \/ \E i \in Units : UnitFilterNoMatch(i)
    \/ \E i \in Units : UnitFilterMatch(i)
    \/ \E i \in Units : UnitSend(i)
    \/ \E i \in Units : UnitInspectOk(i)
    \/ \E i \in Units : UnitInspectErr(i)
    \/ \E i \in Units : UnitNotRunning(i)
    \/ \E i \in Units : UnitStatsErr(i)
    \/ \E i \in Units : UnitStatsDecoded(i, CPUSnapshots)
    \/ \E i \in Units : UnitStatsDecodeErr(i)
    \/ \E i \in Units : UnitMemory(i)
    \/ \E i \in Units : UnitNetwork(i)
    \/ \E i \in Units : UnitCPU(i)
    \/ \E i \in Units : UnitPids(i)
    \/ \E i \in Units : UnitReturn(i)

\* scrape cycles of one container over every CPU counter sample
SpecCPU == Init /\ [][NextCPU]_vars

\* stats payloads ranging over the memory counters and the stat mapping
MemSnapshots ==
    { [SampleStats EXCEPT !.memUsage = u, !.memLimit = l, !.memStats = m] :
        u \in 0..MaxCounter, l \in 0..MaxCounter,
        m \in {EmptyMap} \cup { [key \in {"rss"} |-> 1] }
              \cup { [key \in {"cache"} |-> c] : c \in 0..MaxCounter } }

NextMem ==
    \/ CollectListErr
    \/ CollectList(SingleLists)
    \/ CollectSpawn
    \/ CollectLoopEnd
    \/ CollectReturn
    \/ \E i \in Units : UnitFilterNoMatch(i)
    \/ \E i \in Units : UnitFilterMatch(i)
    \/ \E i \in Units : UnitSend(i)
    \/ \E i \in Units : UnitInspectOk(i)
    \/ \E i \in Units : UnitInspectErr(i)
    \/ \E i \in Units : UnitNotRunning(i)
    \/ \E i \in Units : UnitStatsErr(i)
    \/ \E i \in Units : UnitStatsDecoded(i, MemSnapshots)
    \/ \E i \in Units : UnitStatsDecodeErr(i)
    \/ \E i \in Units : UnitMemory(i)
    \/ \E i \in Units : UnitNetwork(i)
    \/ \E i \in Units : UnitCPU(i)
    \/ \E i \in Units : UnitPids(i)
    \/ \E i \in Units : UnitReturn(i)

\* scrape cycles of one container over every memory sample
SpecMem == Init /\ [][NextMem]_vars

\* the patterns ".*" and "x": one that matches every name, one that matches none
TwoPatterns == {re \in Patterns : re.groups = <<>> /\ ~re.anchor}

\* the collector started with one of the two patterns
InitTwo == Init /\ containerRe \in TwoPatterns

\* the service-bytes records a stats payload is made of
BlkRecords ==
    { [op |-> "read", value |-> 2], [op |-> "READ", value |-> WordMod - 1],
      [op |-> "Write", value |-> 1], [op |-> "Write", value |-> WordMod - 1],
      [op |-> "sync", value |-> 1] }

\* the sequences of at most n records
RECURSIVE BlkSeqs(_)
BlkSeqs(n) ==
    IF n = 0 THEN { <<>> }
    ELSE BlkSeqs(n - 1) \cup
         { Append(q, b) : q \in {r \in BlkSeqs(n - 1) : Len(r) = n - 1},
                          b \in BlkRecords }

\* stats payloads ranging over the block I/O records
BlkSnapshots == { [SampleStats EXCEPT !.blkio = q] : q \in BlkSeqs(MaxRecords) }

NextBlk ==
    \/ CollectListErr
    \/ CollectList(SingleLists)
    \/ CollectSpawn
    \/ CollectLoopEnd
    \/ CollectReturn
    \/ \E i \in Units : UnitFilterNoMatch(i)
    \/ \E i \in Units : UnitFilterMatch(i)
    \/ \E i \in Units : UnitSend(i)
    \/ \E i \in Units : UnitInspectOk(i)
    \/ \E i \in Units : UnitInspectErr(i)
    \/ \E i \in Units : UnitNotRunning(i)
    \/ \E i \in Units : UnitStatsErr(i)
    \/ \E i \in Units : UnitStatsDecoded(i, BlkSnapshots)
    \/ \E i \in Units : UnitStatsDecodeErr(i)
    \/ \E i \in Units : UnitMemory(i)
    \/ \E i \in Units : UnitNetwork(i)
    \/ \E i \in Units : UnitCPU(i)
    \/ \E i \in Units : UnitPids(i)
    \/ \E i \in Units : UnitReturn(i)

\* scrape cycles of one container over every sequence of block I/O records
SpecBlk == InitTwo /\ [][NextBlk]_vars

\* line 50: ContainerList never answers; context.Background() has no deadline
CollectListHang ==
    /\ proc = "alive"
    /\ collectPc = "done"
    /\ cycle < MaxCycles
    /\ cycle' = cycle + 1
    /\ prevListErr' = listErr
    /\ listErr' = FALSE
    /\ containers' = <<>>
    /\ idx' = 1
    /\ wg' = 0
    /\ units' = <<>>
    /\ sink' = <<>>
    /\ collectPc' = "hung"
    /\ UNCHANGED <<containerRe, proc>>

\* line 114: ContainerInspect never answers; context.Background() has no deadline
UnitInspectHang(i) ==
    /\ proc = "alive"
    /\ Sent(i, "lifecycle")
    /\ units' = [units EXCEPT ![i].pc = "hung", ![i].inspectCalls = @ + 1]
    /\ UNCHANGED <<containerRe, proc, cycle, collectPc, listErr, prevListErr,
                   containers, idx, wg, sink>>

\* line 128: ContainerStats never answers; context.Background() has no deadline
UnitStatsHang(i) ==
    /\ proc = "alive"
    /\ Sent(i, "restarts")
    /\ IsRunning(containers[i])
    /\ units' = [units EXCEPT ![i].pc = "hung", ![i].statsCalls = @ + 1]
    /\ UNCHANGED <<containerRe, proc, cycle, collectPc, listErr, prevListErr,
                   containers, idx, wg, sink>>

NextHang ==
    \/ Next
    \/ CollectListHang
    \/ \E i \in Units : UnitInspectHang(i)
    \/ \E i \in Units : UnitStatsHang(i)

\* scrape cycles in which a runtime call may never answer
SpecHang == Init /\ [][NextHang]_vars

----------------------------------------------------------------------------
(* Properties *)

\* names of the metrics of a goroutine's sink, in the order received
SinkNames(i) == [k \in 1..Len(sink[i]) |-> sink[i][k].name]

LifecycleNames ==
    <<"dex_container_running", "dex_container_restarting", "dex_container_exited">>

RestartsName == "dex_container_restarts_total"

ResourceNames ==
    <<"dex_block_io_read_bytes_total", "dex_block_io_write_bytes_total",
      "dex_memory_usage_bytes", "dex_memory_total_bytes",
      "dex_memory_utilization_percent",
      "dex_network_rx_bytes_total", "dex_network_tx_bytes_total",
      "dex_cpu_utilization_percent", "dex_cpu_utilization_seconds_total",
      "dex_pids_current">>

Range(f) == {f[k] : k \in DOMAIN f}

\* the normalized name of containers[i] has no match against the pattern
NoMatch(i) ==
    LET s == NormalizedName(containers[i])
    IN  \A p \in 1..(Len(s) + 1) :
            ~(MatchAt(containerRe, s, p) /\ (containerRe.anchor => p = 1))

\* Collect has returned for the current cycle
Returned == cycle > 0 /\ collectPc = "done"

\* C1: Collect returns only after every goroutine it started in the cycle has
\* returned, on every return path; the WaitGroup counter is never negative,
\* counts the goroutines started and not yet returned, and so is zero exactly
\* when all of them have returned.
C1_BarrierWaitsForAllUnits ==
    /\ wg >= 0
    /\ wg = Cardinality({i \in Units : Live(i)})
    /\ (wg = 0 <=> \A i \in Units : units[i].pc \in {"notstarted", "done"})
    /\ Returned => \A i \in Units : units[i].pc = "done"

\* a cycle returned with one goroutine that left at the filter and one that
\* ran to its last metric
C1_Witness ==
    /\ Returned
    /\ \E i, j \in Units :
        /\ NoMatch(i) /\ units[i].pc = "done"
        /\ Len(sink[j]) = 14 /\ units[j].pc = "done"

\* C2: a failed inspect or stats call of one container does not terminate the
\* process, and the cycle's other goroutines and Collect are not cut short.
C2_FailureIsContained ==
    (\E i \in Units : units[i].pc = "fatal") => proc = "alive"

\* C3: a container whose normalized name has no match against the filter
\* pattern has no metric at all in the sink, and none waiting to be sent.
C3_FilteredOutEmitsNothing ==
    \A i \in Units : NoMatch(i) => sink[i] = <<>> /\ units[i].pending = <<>>

\* a cycle returned in which one container was filtered out while another
\* one sent its metrics
C3_Witness ==
    /\ Returned
    /\ \E i, j \in Units :
        /\ NoMatch(i) /\ units[i].pc = "done"
        /\ sink[j] # <<>>

\* what a goroutine that ran to its end has sent
CompleteSink(i) ==
    IF NoMatch(i) THEN sink[i] = <<>>
    ELSE IF containers[i].State = "running"
         THEN SinkNames(i) = LifecycleNames \o <<RestartsName>> \o ResourceNames
         ELSE SinkNames(i) = LifecycleNames \o <<RestartsName>>

\* C4: a cycle whose ContainerList failed has sent nothing, started no
\* goroutine, left the process alive and returned; the cycle after it, when
\* its ContainerList succeeds, sends every container's metrics in full.
C4_ListFailureEmptiesOnlyThatCycle ==
    /\ listErr =>
          /\ proc = "alive"
          /\ Returned
          /\ units = <<>> /\ sink = <<>> /\ wg = 0
    /\ (prevListErr /\ ~listErr /\ Returned) =>
          /\ Len(sink) = Len(containers)
          /\ \A i \in Units : CompleteSink(i)

\* the cycle after a failed enumeration returned with a running container's
\* fourteen metrics
C4_Witness ==
    /\ prevListErr /\ ~listErr /\ Returned
    /\ \E i \in Units : Len(sink[i]) = 14

\* C5: after a failed Decode the goroutine sends none of the resource
\* metrics; the state gauges and the restart counter are all it sends.
C5_DecodeFailureSkipsResources ==
    \A i \in Units :
        units[i].decodeErr =>
            /\ Range(SinkNames(i)) \cap Range(ResourceNames) = {}
            /\ units[i].pc = "done" => SinkNames(i) = LifecycleNames \o <<RestartsName>>

\* C6: a container that is not "running" gets only the state gauges and the
\* restart counter and no stats call; a goroutine that passed the filter and
\* ran to its end made the stats call iff the enumerated state is "running".
C6_StatsOnlyWhenRunning ==
    \A i \in Units :
        /\ units[i].statsCalls > 0 => containers[i].State = "running"
        /\ containers[i].State # "running" =>
              /\ Range(SinkNames(i)) \subseteq Range(LifecycleNames) \cup {RestartsName}
              /\ units[i].statsCalls = 0
        /\ (units[i].pc = "done" /\ ~NoMatch(i)) =>
              /\ units[i].statsCalls = 1 <=> containers[i].State = "running"
              /\ containers[i].State # "running" =>
                    SinkNames(i) = LifecycleNames \o <<RestartsName>>

\* a cycle returned with a non-running container's four metrics and a
\* running container whose stats were fetched
C6_Witness ==
    /\ Returned
    /\ \E i, j \in Units :
        /\ containers[i].State = "restarting" /\ Len(sink[i]) = 4
        /\ containers[j].State = "running" /\ units[j].statsCalls = 1

\* the value of the state gauge `name` in the sink of goroutine i
Gauge(i, name) ==
    LET k == CHOOSE k \in 1..Len(sink[i]) : sink[i][k].name = name
    IN  sink[i][k].value

\* C7: every container that passed the filter sends the three state gauges
\* with value 0 or 1; for the states "running", "restarting" and "exited"
\* exactly the gauge of that name is 1, for any other state all three are 0.
C7_LifecycleGaugesExclusive ==
    \A i \in Units :
        /\ (units[i].pc = "done" /\ ~NoMatch(i)) => Len(sink[i]) >= 3
        /\ Len(sink[i]) >= 3 =>
              /\ SubSeq(SinkNames(i), 1, 3) = LifecycleNames
              /\ \A k \in 1..3 :
                    /\ sink[i][k].kind = "gauge"
                    /\ sink[i][k].value \in {Fin(0, 1), Fin(1, 1)}
              /\ Gauge(i, "dex_container_running") = Fin(1, 1)
                    <=> containers[i].State = "running"
              /\ Gauge(i, "dex_container_restarting") = Fin(1, 1)
                    <=> containers[i].State = "restarting"
              /\ Gauge(i, "dex_container_exited") = Fin(1, 1)
                    <=> containers[i].State = "exited"

\* the gauges of a paused and of an exited container were sent
C7_Witness ==
    \E i, j \in Units :
        /\ containers[i].State = "paused" /\ Len(sink[i]) >= 3
        /\ containers[j].State = "exited" /\ Len(sink[j]) >= 3

\* the label the filter assigns: the last capture group if the pattern has
\* groups, the whole match otherwise
ResolvedName(i) ==
    LET m == FindStringSubmatch(containerRe, NormalizedName(containers[i]))
    IN  IF Len(containerRe.groups) >= 1
        THEN m[1 + Len(containerRe.groups)]
        ELSE m[1]

\* C8: every metric of a container, sent or about to be sent, carries the
\* same label: the last capture group of the match when the pattern has
\* capture groups, the whole match otherwise.
C8_LabelIsLastGroupOrWholeMatch ==
    \A i \in Units :
        \A m \in Range(sink[i]) \cup Range(units[i].pending) :
            m.label = ResolvedName(i)

\* under a pattern with two groups a running container sent all its metrics,
\* its label differing from the whole match
C8_Witness ==
    /\ Len(containerRe.groups) = 2
    /\ \E i \in Units :
        /\ Len(sink[i]) = 14
        /\ ResolvedName(i) #
              FindStringSubmatch(containerRe, NormalizedName(containers[i]))[1]

\* the metrics named `name` in the sink of a goroutine whose stats decoded
Emitted(i, name) ==
    IF units[i].decodeErr THEN {}
    ELSE {m \in Range(sink[i]) : m.name = name}

\* the float v is the rational num / den
IsRatio(v, num, den) == v.k = "fin" /\ v.n * den = num * v.d

\* C9: the CPU utilization gauge is 100 * d_cpu / d_sys whenever d_cpu >= 0
\* and d_sys > 0, within [0, 100] when d_cpu does not exceed d_sys; when d_sys
\* is 0 the gauge is 0, a finite number.
C9_CpuUtilizationGuarded ==
    \A i \in Units :
        \A m \in Emitted(i, "dex_cpu_utilization_percent") :
            LET d_cpu == units[i].stats.cpuTotal - units[i].stats.preCpuTotal
                d_sys == units[i].stats.system - units[i].stats.preSystem
            IN  /\ (d_cpu >= 0 /\ d_sys > 0) => IsRatio(m.value, 100 * d_cpu, d_sys)
                /\ (d_cpu >= 0 /\ d_sys > 0 /\ d_cpu <= d_sys) =>
                      /\ m.value.n >= 0
                      /\ m.value.n <= 100 * m.value.d
                /\ d_sys = 0 => m.value = Fin(0, 1)

\* C10: the memory usage sent is rawUsage - cache in unsigned arithmetic,
\* cache being 0 when the key is absent; the utilization gauge is
\* 100 * usage / limit, and 0 when limit is 0.
C10_MemoryUtilizationGuarded ==
    \A i \in Units :
        LET st == units[i].stats
            cache == IF "cache" \in DOMAIN st.memStats THEN st.memStats["cache"] ELSE 0
            usage == (st.memUsage - cache) % WordMod
        IN  /\ \A m \in Emitted(i, "dex_memory_usage_bytes") :
                  m.value = ToFloat(usage)
            /\ \A m \in Emitted(i, "dex_memory_utilization_percent") :
                  /\ st.memLimit # 0 =>
                        IsRatio(m.value, 100 * ToFloat(usage).n, ToFloat(st.memLimit).n)
                  /\ st.memLimit = 0 => m.value = Fin(0, 1)

\* the sum modulo WordMod of the values of the records at the indexes S
RECURSIVE TotalAt(_, _)
TotalAt(records, S) ==
    IF S = {} THEN 0
    ELSE LET k == CHOOSE k \in S : TRUE
         IN  (records[k].value + TotalAt(records, S \ {k})) % WordMod

\* the spellings of an operation name that differ in case only
Spellings(op) ==
    IF op = "read" THEN {"read", "Read", "READ"} ELSE {"write", "Write", "WRITE"}

\* what the records contribute to the total of `op`, whatever their order
TotalOf(records, op) ==
    TotalAt(records, {k \in 1..Len(records) : records[k].op \in Spellings(op)})

\* the rearrangements of a sequence
Rearranged(q) ==
    { [k \in 1..Len(q) |-> q[f[k]]] :
        f \in {g \in [1..Len(q) -> 1..Len(q)] :
                  \A a, b \in 1..Len(q) : a # b => g[a] # g[b]} }

\* C11: the block I/O totals sent are the same for every permutation of the
\* records; a record counts for the read total iff its operation is "read" in
\* any case, for the write total iff it is "write" in any case, and a record
\* of any other operation counts for neither.
C11_BlockIoTotalsOrderFree ==
    \A i \in Units :
        LET q == units[i].stats.blkio
        IN  /\ \A m \in Emitted(i, "dex_block_io_read_bytes_total") :
                  /\ m.value = ToFloat(TotalOf(q, "read"))
                  /\ \A r \in Rearranged(q) :
                        BlockIoMetrics([blkio |-> r], m.label)[1] = m
            /\ \A m \in Emitted(i, "dex_block_io_write_bytes_total") :
                  /\ m.value = ToFloat(TotalOf(q, "write"))
                  /\ \A r \in Rearranged(q) :
                        BlockIoMetrics([blkio |-> r], m.label)[2] = m

\* both totals were sent for three records of mixed case and kind, the
\* read total having wrapped around
C11_Witness ==
    \E i \in Units :
        /\ Emitted(i, "dex_block_io_write_bytes_total") # {}
        /\ LET q == units[i].stats.blkio
           IN  /\ Len(q) = 3
               /\ q[1].op = "sync" /\ q[2].op = "READ" /\ q[3].op = "read"
               /\ q[2].value + q[3].value > WordMod

\* a concurrency limit below the number of containers the host can list
ConcurrencyLimit == Len(Hosted) - 1

\* C12: at every moment of a cycle the goroutines started and not yet
\* returned are at most the concurrency limit, however many containers the
\* enumeration returns.
C12_ConcurrencyBounded ==
    Cardinality({i \in Units : Live(i)}) <= ConcurrencyLimit

\* a runtime call of the current cycle never answers
CallHung == collectPc = "hung" \/ \E i \in Units : units[i].pc = "hung"

\* C13: a runtime call that never answers does not stall the cycle: as long
\* as Collect has not returned, some step towards its return is possible.
C13_HungCallCannotStall ==
    (proc = "alive" /\ CallHung) => (Returned \/ ENABLED NextHang)

\* the metric catalog: the name of each metric, the name it is exposed
\* under (with the exporter's prefix) and its kind
Catalog ==
    { [name |-> "container_running", exposed |-> "dex_container_running", kind |-> "gauge"],
      [name |-> "container_restarting", exposed |-> "dex_container_restarting", kind |-> "gauge"],
      [name |-> "container_exited", exposed |-> "dex_container_exited", kind |-> "gauge"],
      [name |-> "container_restarts_total", exposed |-> "dex_container_restarts_total", kind |-> "counter"],
      [name |-> "cpu_utilization_percent", exposed |-> "dex_cpu_utilization_percent", kind |-> "gauge"],
      [name |-> "cpu_utilization_seconds_total", exposed |-> "dex_cpu_utilization_seconds_total", kind |-> "counter"],
      [name |-> "memory_usage_bytes", exposed |-> "dex_memory_usage_bytes", kind |-> "counter"],
      [name |-> "memory_total_bytes", exposed |-> "dex_memory_total_bytes", kind |-> "gauge"],
      [name |-> "memory_utilization_percent", exposed |-> "dex_memory_utilization_percent", kind |-> "gauge"],
      [name |-> "network_rx_bytes_total", exposed |-> "dex_network_rx_bytes_total", kind |-> "counter"],
      [name |-> "network_tx_bytes_total", exposed |-> "dex_network_tx_bytes_total", kind |-> "counter"],
      [name |-> "block_io_read_bytes_total", exposed |-> "dex_block_io_read_bytes_total", kind |-> "counter"],
      [name |-> "block_io_write_bytes_total", exposed |-> "dex_block_io_write_bytes_total", kind |-> "counter"],
      [name |-> "pids_current", exposed |-> "dex_pids_current", kind |-> "counter"] }

\* the one metric of goroutine i exposed under the catalog name `name`
Sole(i, name) ==
    LET row == CHOOSE row \in Catalog : row.name = name
    IN  CHOOSE m \in Range(sink[i]) : m.name = row.exposed

\* a running container passed the filter, its inspect, stats and decode
\* succeeded and its goroutine returned
RanInFull(i) ==
    /\ units[i].pc = "done"
    /\ ~NoMatch(i)
    /\ containers[i].State = "running"
    /\ ~units[i].decodeErr

\* C14: a running, matching container whose inspect, stats and decode all
\* succeed sends exactly fourteen metrics, one for each name of the catalog
\* and none twice, each of the catalog's kind and with the value derived
\* from the snapshot.
C14_FourteenMetricsOfTheCatalog ==
    \A i \in Units :
        RanInFull(i) =>
            LET st == units[i].stats
                eth0 == IF "eth0" \in DOMAIN st.networks THEN st.networks["eth0"]
                        ELSE [rx |-> 0, tx |-> 0]
                cache == IF "cache" \in DOMAIN st.memStats THEN st.memStats["cache"] ELSE 0
                V(name) == Sole(i, name).value
            IN  /\ Len(sink[i]) = 14
                /\ Cardinality(Range(SinkNames(i))) = 14
                /\ \A row \in Catalog :
                      \E k \in 1..14 :
                          sink[i][k].name = row.exposed /\ sink[i][k].kind = row.kind
                /\ V("container_running") = Fin(1, 1)
                /\ V("container_restarting") = Fin(0, 1)
                /\ V("container_exited") = Fin(0, 1)
                /\ V("container_restarts_total") = Fin(units[i].restartCount, 1)
                /\ IsRatio(V("cpu_utilization_percent"),
                           100 * (st.cpuTotal - st.preCpuTotal), st.system - st.preSystem)
                /\ V("cpu_utilization_seconds_total") = Fin(st.cpuTotal, NanosPerSecond)
                /\ V("memory_usage_bytes") = Fin(st.memUsage - cache, 1)
                /\ V("memory_total_bytes") = Fin(st.memLimit, 1)
                /\ IsRatio(V("memory_utilization_percent"),
                           100 * (st.memUsage - cache), st.memLimit)
                /\ V("network_rx_bytes_total") = Fin(eth0.rx, 1)
                /\ V("network_tx_bytes_total") = Fin(eth0.tx, 1)
                /\ V("block_io_read_bytes_total") = Fin(TotalOf(st.blkio, "read"), 1)
                /\ V("block_io_write_bytes_total") = Fin(TotalOf(st.blkio, "write"), 1)
                /\ V("pids_current") = Fin(st.pids, 1)

\* a running container restarted twice ran in full
C14_Witness ==
    \E i \in Units : RanInFull(i) /\ units[i].restartCount = 2 /\ Len(sink[i]) = 14

\* the names of the state gauges and the restart counter
LifecycleSet == Range(LifecycleNames) \cup {RestartsName}

\* C15: in the sink of one goroutine every state gauge and the restart
\* counter come before every resource metric; between goroutines there is no
\* order: whenever two of them each have a metric to send, either one can be
\* received next.
C15_LifecycleFirstNoCrossOrder ==
    /\ \A i \in Units :
          /\ \A a, b \in 1..Len(sink[i]) :
                (sink[i][a].name \in LifecycleSet
                    /\ sink[i][b].name \in Range(ResourceNames)) => a < b
          /\ \A m \in Range(units[i].pending) :
                m.name \in LifecycleSet =>
                    Range(SinkNames(i)) \cap Range(ResourceNames) = {}
    /\ \A i, j \in Units :
          (i # j /\ proc = "alive"
              /\ units[i].pending # <<>> /\ units[j].pending # <<>>) =>
                (ENABLED UnitSend(i)) /\ (ENABLED UnitSend(j))

\* the goroutine started second sent all fourteen metrics, resource metrics
\* after lifecycle metrics, before the one started first sent its first
C15_Witness ==
    /\ Len(containers) = 2
    /\ sink[1] = <<>> /\ units[1].pending # <<>>
    /\ Len(sink[2]) = 14

\* the goroutines Collect has started in the current cycle
Started == {i \in Units : units[i].pc # "notstarted"}

\* the range loop of the current cycle is over
LoopOver == cycle > 0 /\ ~listErr /\ collectPc \in {"wait", "done"}

CycleOutput(re, cont, restartCount, st) ==
    LET m == FindStringSubmatch(re, NormalizedName(cont))
        label == m[Len(m)]
    IN  IF m = <<>> THEN <<>>
        ELSE LifecycleMetrics(cont.State, label)
             \o RestartsMetric(restartCount, label)
             \o (IF cont.State = "running"
                 THEN BlockIoMetrics(st, label) \o MemoryMetrics(st, label)
                      \o NetworkMetrics(st, label) \o CPUMetrics(st, label)
                      \o PidsMetrics(st, label)
                 ELSE <<>>)

\* C17: what a cycle sends depends only on the pattern and on the runtime's
\* answers in that cycle: every cycle starts from the same empty state, and
\* when it returns each container's metrics are the function CycleOutput of
\* its answers, whatever cycles ran before.
C17_CyclesAreIndependent ==
    /\ (collectPc = "loop" /\ idx = 1) =>
          /\ wg = 0
          /\ \A i \in Units : units[i] = NotStarted /\ sink[i] = <<>>
    /\ listErr => sink = <<>>
    /\ (Returned /\ ~listErr) =>
          /\ DOMAIN sink = DOMAIN containers
          /\ \A i \in Units :
                sink[i] = CycleOutput(containerRe, containers[i],
                                      units[i].restartCount, units[i].stats)

\* a second cycle returned after a first one that sent metrics, a running
\* container among its own
C17_Witness ==
    /\ cycle = 2 /\ ~prevListErr /\ ~listErr /\ Returned
    /\ \E i \in Units : Len(sink[i]) = 14

\* C18: once Collect has returned for a cycle no goroutine of the cycle sends
\* again: none has a metric pending, none is at a point from which it goes
\* on to a send, and no send is enabled.
C18_NoSendAfterReturn ==
    Returned =>
        \A i \in Units :
            /\ units[i].pending = <<>>
            /\ units[i].pc = "done"
            /\ ~ENABLED UnitSend(i)
            /\ ~ENABLED UnitFilterMatch(i)

\* Collect returned after two goroutines had sent metrics
C18_Witness ==
    /\ Returned
    /\ Len(containers) = 2
    /\ \A i \in Units : Len(sink[i]) >= 4

\* C19: with every runtime call answered and the consumer receiving every
\* metric, Collect returns in the end: as long as it has not returned, a step
\* of Collect or of one of its goroutines is possible.
C19_CollectReturnsWhenCallsReturn ==
    Returned \/ ENABLED Next

\* C20: the runtime calls of one goroutine follow a fixed protocol: none for
\* a container the filter excludes; inspect at most once and only after the
\* three state gauges were sent; stats at most once, only after inspect
\* succeeded and the restart counter was sent, and only for a container
\* listed as "running".
C20_CallProtocol ==
    \A i \in Units :
        /\ NoMatch(i) => units[i].inspectCalls = 0 /\ units[i].statsCalls = 0
        /\ units[i].inspectCalls <= 1
        /\ units[i].statsCalls <= 1
        /\ units[i].inspectCalls = 1 =>
              /\ Len(sink[i]) >= 3
              /\ SubSeq(SinkNames(i), 1, 3) = LifecycleNames
        /\ units[i].statsCalls = 1 =>
              /\ units[i].inspectCalls = 1
              /\ Len(sink[i]) >= 4
              /\ sink[i][4] = RestartsMetric(units[i].restartCount, units[i].cName)[1]
              /\ containers[i].State = "running"

\* a running container's stats were fetched after its inspect, next to an
\* excluded container for which no call was made
C20_Witness ==
    \E i, j \in Units :
        /\ units[i].statsCalls = 1 /\ units[i].inspectCalls = 1
        /\ NoMatch(j) /\ units[j].pc = "done"

====
